---- MODULE Spec2Model ----
(***************************************************************************)
(* Flight_Delay_Model_Training.ipynb: the training cell (import_data for   *)
(* the training months, import_data for the validation months, normalize,  *)
(* missing_cat_add, model.fit) and the save cell (model.save and the       *)
(* joblib dumps), one action per function call or statement.               *)
(* A DataFrame is a record [cols, index, rows]: the ordered                *)
(* column names, the row labels, and one function column -> cell per row.  *)
(* A numeric cell is a rational <<n, d>> in lowest terms; d = 0 encodes    *)
(* the non-finite floats (NaN, -inf).  A categorical cell is a string.     *)
(***************************************************************************)
EXTENDS Integers, Sequences, FiniteSets, TLC

(* ------------------------------------------------------------------ *)
(* Bounds of the model                                                 *)
(* ------------------------------------------------------------------ *)
\* most rows in a raw monthly table
MaxRows == 3
\* most rows in a raw monthly table of the runs that subsample
MaxSampleRows == 6
\* subsample fractions are k/FracDen, k in 1..FracDen
FracDen == 4

(* ------------------------------------------------------------------ *)
(* Numbers                                                             *)
(* ------------------------------------------------------------------ *)
Abs(a) == IF a < 0 THEN -a ELSE a

RECURSIVE GCD(_, _)
GCD(a, b) == IF b = 0 THEN a ELSE GCD(b, a % b)

NaN == <<0, 0>>
NegInf == <<-1, 0>>

\* the rational n/d (d # 0) in lowest terms with a positive denominator
Rat(n, d) ==
  LET g == GCD(Abs(n), Abs(d))
      s == IF d < 0 THEN -1 ELSE 1
  IN <<(s * n) \div g, (s * d) \div g>>

R(k) == <<k, 1>>
IsFinite(r) == r[2] # 0
IsNaN(r) == r = NaN

RatAdd(a, b) == IF IsFinite(a) /\ IsFinite(b) THEN Rat(a[1] * b[2] + b[1] * a[2], a[2] * b[2]) ELSE NaN
RatSub(a, b) == IF IsFinite(a) /\ IsFinite(b) THEN Rat(a[1] * b[2] - b[1] * a[2], a[2] * b[2]) ELSE NaN
RatMul(a, b) == IF IsFinite(a) /\ IsFinite(b) THEN Rat(a[1] * b[1], a[2] * b[2]) ELSE NaN
\* b # 0
RatDiv(a, b) == IF IsFinite(a) /\ IsFinite(b) THEN Rat(a[1] * b[2], a[2] * b[1]) ELSE NaN
RatLess(a, b) == a[1] * b[2] < b[1] * a[2]
RatLeq(a, b) == a[1] * b[2] <= b[1] * a[2]
\* Python's a // k and a % k on numbers, k a positive integer
RatFloorDiv(a, k) == IF IsFinite(a) THEN R(a[1] \div (a[2] * k)) ELSE NaN
RatMod(a, k) == RatSub(a, RatMul(R(k), RatFloorDiv(a, k)))
\* floor of a finite rational, as an integer
Floor(a) == a[1] \div a[2]

(* ------------------------------------------------------------------ *)
(* The run's inputs (the notebook's input cell)                        *)
(* ------------------------------------------------------------------ *)
X_vars == <<"Month", "DayOfWeek", "Reporting_Airline", "Origin", "Dest",
            "OriginState", "DestState", "CRSDepTime", "CRSArrTime", "CRSElapsedTime">>
X_vars_categorical == <<"Reporting_Airline", "Origin", "Dest", "OriginState", "DestState">>
X_vars_hours == <<"CRSDepTime", "CRSArrTime">>
\* the dict's items, in insertion order
X_vars_cyclical_dict == << <<"Month", 12>>, <<"DayOfWeek", 7>>, <<"CRSDepTime", 24>>, <<"CRSArrTime", 24>> >>
X_vars_normalize == <<"CRSElapsedTime">>
X_vars_log == <<"CRSElapsedTime">>
y_var == <<"ArrDelayMinutes">>
delay_minutes == 15
rand_frac_val == <<1, 1>>

(* ------------------------------------------------------------------ *)
(* Sequences and frames                                                *)
(* ------------------------------------------------------------------ *)
Range(s) == {s[i] : i \in 1..Len(s)}
IndexOf(s, x) == CHOOSE i \in 1..Len(s) : s[i] = x
\* the elements of s at the positions pos (a sequence of positions), in pos's order
Take(s, pos) == [i \in 1..Len(pos) |-> s[pos[i]]]
\* the positions (ascending) at which the boolean mask is true
Positions(mask) == SelectSeq([i \in 1..Len(mask) |-> i], LAMBDA i : mask[i])

EmptyFrame == [cols |-> <<>>, index |-> <<>>, rows |-> <<>>]
EmptySeries == [index |-> <<>>, vals |-> <<>>]
NRows(f) == Len(f.index)
\* f's rows at the positions pos
FrameTake(f, pos) == [cols |-> f.cols, index |-> Take(f.index, pos), rows |-> Take(f.rows, pos)]

\* every string a categorical cell or a dummy column can hold, in Python's string order
LexOrder == <<"AS", "ATL", "Alaska Airlines Inc.", "BOS", "DL", "Delta Air Lines Inc.",
              "GA", "JFK", "MA", "NY", "VX", "Virgin America", "ZZ">>
\* a missing categorical cell (pandas NaN in an object column)
NullStr == "<NaN>"
\* the columns of a raw table that hold strings
StringColumns == {"Reporting_Airline", "Origin", "Dest", "OriginState", "DestState"}
\* isnull of the cell c of column col
IsNull(col, c) == IF col \in StringColumns THEN c = NullStr ELSE c = NaN
\* sorted(set) for strings
SortedStrings(S) == SelectSeq(LexOrder, LAMBDA s : s \in S)

(* ------------------------------------------------------------------ *)
(* Reading the month files                                             *)
(* ------------------------------------------------------------------ *)
\* the order in which the On-Time files hold the columns read (usecols keeps file order)
FileColumns == <<"Month", "DayOfWeek", "Reporting_Airline", "Origin", "OriginState",
                 "Dest", "DestState", "CRSDepTime", "CRSArrTime", "ArrDelayMinutes",
                 "CRSElapsedTime">>

\* read_flight_csv: the files' rows appended in order, relabelled 0..n-1
read_flight_csv(data) ==
  [cols |-> FileColumns, index |-> [i \in 1..Len(data) |-> i - 1], rows |-> data]

\* DataFrame.dropna: the rows with no missing cell
dropna(f) ==
  FrameTake(f, Positions([i \in 1..NRows(f) |-> \A c \in Range(f.cols) : ~IsNull(c, f.rows[i][c])]))

(* ------------------------------------------------------------------ *)
(* Busiest airports, airline names                                     *)
(* ------------------------------------------------------------------ *)
\* df.groupby([col]).size(): the count of each value of col that occurs
GroupSize(f, col) ==
  LET keys == {f.rows[i][col] : i \in 1..NRows(f)}
  IN [k \in keys |-> Cardinality({i \in 1..NRows(f) : f.rows[i][col] = k})]

\* arrivals+departures: aligned on the union of the two indexes; a key that one side
\* lacks gets NaN
SeriesAdd(a, b) ==
  [k \in DOMAIN a \cup DOMAIN b |->
     IF k \in DOMAIN a /\ k \in DOMAIN b THEN R(a[k] + b[k]) ELSE NaN]

\* the orders sort_values(ascending=False) can give the keys of s: larger values
\* first, the order of equal values left open by the default quicksort, NaN last
\* in index order
SortValuesDescending(s) ==
  LET num == {k \in DOMAIN s : ~IsNaN(s[k])}
      nan == SortedStrings({k \in DOMAIN s : IsNaN(s[k])})
      orders == {q \in [1..Cardinality(num) -> num] :
                   /\ \A i, j \in DOMAIN q : i # j => q[i] # q[j]
                   /\ \A i, j \in DOMAIN q : i < j => RatLeq(s[q[j]], s[q[i]])}
  IN {q \o nan : q \in orders}

\* the lists airport_select(df, num_airports) can return
airport_select(f, K) ==
  LET arrivals == GroupSize(f, "Dest")
      departures == GroupSize(f, "Origin")
      flights == SeriesAdd(arrivals, departures)
  IN {SubSeq(q, 1, IF K < Len(q) THEN K ELSE Len(q)) : q \in SortValuesDescending(flights)}

airport_restrict(f, airports) ==
  FrameTake(f, Positions([i \in 1..NRows(f) |->
    f.rows[i]["Dest"] \in Range(airports) /\ f.rows[i]["Origin"] \in Range(airports)]))

\* L_UNIQUE_CARRIERS.csv as a dict Code -> Description ("ZZ" has no entry)
carrier_dict ==
  [c \in {"AS", "DL", "VX"} |->
     CASE c = "AS" -> "Alaska Airlines Inc."
       [] c = "DL" -> "Delta Air Lines Inc."
       [] c = "VX" -> "Virgin America"]

\* Series.map(dict): a value with no key maps to NaN
MapDict(d, v) == IF v \in DOMAIN d THEN d[v] ELSE NullStr

\* mutant: the merged carrier keeps its old name
airline_names_no_merge(f) ==
  [f EXCEPT !.rows = [i \in 1..NRows(f) |->
     [f.rows[i] EXCEPT !["Reporting_Airline"] = MapDict(carrier_dict, f.rows[i]["Reporting_Airline"])]]]

airline_names(f) ==
  LET mapped(r) == MapDict(carrier_dict, r["Reporting_Airline"])
      renamed(r) == IF mapped(r) = "Virgin America" THEN "Alaska Airlines Inc." ELSE mapped(r)
  IN [f EXCEPT !.rows = [i \in 1..NRows(f) |-> [f.rows[i] EXCEPT !["Reporting_Airline"] = renamed(f.rows[i])]]]

(* ------------------------------------------------------------------ *)
(* Features and target                                                 *)
(* ------------------------------------------------------------------ *)
\* df[columns]
SelectColumns(f, columns) ==
  [cols |-> columns, index |-> f.index,
   rows |-> [i \in 1..NRows(f) |-> [c \in Range(columns) |-> f.rows[i][c]]]]

\* the dummy columns of one categorical column: one per value that occurs (NaN has none)
DummyLevels(f, col) == SortedStrings({f.rows[i][col] : i \in 1..NRows(f)} \ {NullStr})
DummyNames(f, col) == LET lv == DummyLevels(f, col) IN [j \in 1..Len(lv) |-> col \o "_" \o lv[j]]

RECURSIVE Flatten(_)
Flatten(ss) == IF ss = <<>> THEN <<>> ELSE Head(ss) \o Flatten(Tail(ss))

\* pd.get_dummies(f, columns=columns): the other columns in place, then each encoded
\* column's dummies, in the order of columns
get_dummies(f, columns) ==
  LET kept == SelectSeq(f.cols, LAMBDA c : c \notin Range(columns))
      dummies == Flatten([k \in 1..Len(columns) |-> DummyNames(f, columns[k])])
      cell(r, c) ==
        IF c \in Range(kept) THEN r[c]
        ELSE LET src == CHOOSE s \in Range(columns) : c \in Range(DummyNames(f, s))
             IN IF r[src] # NullStr /\ c = src \o "_" \o r[src] THEN R(1) ELSE R(0)
  IN [cols |-> kept \o dummies, index |-> f.index,
      rows |-> [i \in 1..NRows(f) |-> [c \in Range(kept \o dummies) |-> cell(f.rows[i], c)]]]

\* mutant: a delay equal to the threshold is not counted
GreaterEqual_strict(v, t) == IsFinite(v) /\ RatLess(R(t), v)

\* NaN >= t is False
GreaterEqual(v, t) == IsFinite(v) /\ RatLeq(R(t), v)

predictors_X(f, Xv, Xc) == get_dummies(SelectColumns(f, Xv), Xc)
predictors_y(f, target_delay_minutes) ==
  [index |-> f.index,
   vals |-> [i \in 1..NRows(f) |-> GreaterEqual(f.rows[i]["ArrDelayMinutes"], target_delay_minutes)]]

\* mutant: the minutes read as hundredths of an hour
DecimalHours_hundredths(v) == RatAdd(RatFloorDiv(v, 100), RatDiv(RatMod(v, 100), R(100)))

\* one packed HHMM value as decimal hours: v//100+(v%100)/60
DecimalHours(v) == RatAdd(RatFloorDiv(v, 100), RatDiv(RatMod(v, 100), R(60)))

convert_hours(f, columns) ==
  [f EXCEPT !.rows = [i \in 1..NRows(f) |->
     [c \in Range(f.cols) |-> IF c \in Range(columns) THEN DecimalHours(f.rows[i][c]) ELSE f.rows[i][c]]]]

\* a real x modulo 1
Frac(a) == RatSub(a, R(Floor(a)))
RatMin(a, b) == IF RatLeq(a, b) THEN a ELSE b
\* np.sin and np.cos of 2*pi*t, t a fraction of a turn.  The real number sin(2*pi*t) is
\* held as the least u in [0,1) with sin(2*pi*u) = sin(2*pi*t), i.e. the lesser of
\* t mod 1 and (1/2 - t) mod 1, and cos(2*pi*t) as the lesser of t mod 1 and (-t) mod 1:
\* two cells are equal exactly when the two real numbers are.
SinTurn(t) == IF IsFinite(t) THEN RatMin(Frac(t), Frac(RatSub(<<1, 2>>, t))) ELSE NaN
CosTurn(t) == IF IsFinite(t) THEN RatMin(Frac(t), Frac(RatSub(R(0), t))) ELSE NaN

\* mutant: the cosine column computed with np.sin
CyclicalStep_sin_twice(f, col, max_value) ==
  LET s == "sin(" \o col \o ")"
      c == "cos(" \o col \o ")"
      cols == SelectSeq(f.cols, LAMBDA x : x # col /\ x # s /\ x # c) \o <<s, c>>
      turn(r) == RatDiv(r[col], R(max_value))
  IN [f EXCEPT !.cols = cols,
               !.rows = [i \in 1..NRows(f) |->
                  [x \in Range(cols) |->
                     IF x = s \/ x = c THEN SinTurn(turn(f.rows[i])) ELSE f.rows[i][x]]]]

\* one pass of convert_cyclical's loop: append sin(col), cos(col); drop col
CyclicalStep(f, col, max_value) ==
  LET s == "sin(" \o col \o ")"
      c == "cos(" \o col \o ")"
      cols == SelectSeq(f.cols, LAMBDA x : x # col /\ x # s /\ x # c) \o <<s, c>>
      turn(r) == RatDiv(r[col], R(max_value))
  IN [f EXCEPT !.cols = cols,
               !.rows = [i \in 1..NRows(f) |->
                  [x \in Range(cols) |->
                     IF x = s THEN SinTurn(turn(f.rows[i]))
                     ELSE IF x = c THEN CosTurn(turn(f.rows[i]))
                     ELSE f.rows[i][x]]]]

RECURSIVE convert_cyclical(_, _)
convert_cyclical(f, col_name_maxval_dict) ==
  IF col_name_maxval_dict = <<>> THEN f
  ELSE convert_cyclical(CyclicalStep(f, Head(col_name_maxval_dict)[1], Head(col_name_maxval_dict)[2]),
                        Tail(col_name_maxval_dict))

(* ------------------------------------------------------------------ *)
(* Subsampling                                                         *)
(* ------------------------------------------------------------------ *)
\* Python's round() of the rational a >= 0: to the nearest integer, a half to the even one
RoundHalfEven(a) ==
  LET fl == Floor(a)
      twice == RatSub(RatMul(R(2), a), R(2 * fl))
  IN IF RatLess(twice, R(1)) THEN fl
     ELSE IF RatLess(R(1), twice) THEN fl + 1
     ELSE IF fl % 2 = 0 THEN fl ELSE fl + 1

\* RandomState(rand_state).choice(length, size=n, replace=False): the first n of the
\* permutation the generator draws for that length (positions from 1)
Choice(gen, length, n) == SubSeq(gen[length], 1, n)

\* DataFrame.sample(frac=..., random_state=...)
SampleFrac(gen, f, frac) == FrameTake(f, Choice(gen, NRows(f), RoundHalfEven(RatMul(frac, R(NRows(f))))))
\* DataFrame.sample(n=..., random_state=...)
SampleN(gen, f, n) == FrameTake(f, Choice(gen, NRows(f), n))

\* X_copy['y']=y: the labels joined to the rows by row label (NaN where y has none)
WithY(X, y) ==
  [cols |-> X.cols \o <<"y">>, index |-> X.index,
   rows |-> [i \in 1..NRows(X) |->
      [c \in Range(X.cols) \cup {"y"} |->
         IF c = "y"
         THEN (IF X.index[i] \in Range(y.index) THEN y.vals[IndexOf(y.index, X.index[i])] ELSE NullStr)
         ELSE X.rows[i][c]]]]
\* mutant: the labels returned in the reverse of the sample's order
YOf_reversed(samp) ==
  [index |-> [i \in 1..NRows(samp) |-> samp.index[NRows(samp) + 1 - i]],
   vals |-> [i \in 1..NRows(samp) |-> samp.rows[NRows(samp) + 1 - i]["y"]]]

\* samp['y'] and samp.drop(['y'],axis=1)
YOf(samp) == [index |-> samp.index, vals |-> [i \in 1..NRows(samp) |-> samp.rows[i]["y"]]]
DropY(samp) ==
  LET cols == SelectSeq(samp.cols, LAMBDA c : c # "y")
  IN [cols |-> cols, index |-> samp.index,
      rows |-> [i \in 1..NRows(samp) |-> [c \in Range(cols) |-> samp.rows[i][c]]]]
\* DataFrame.append
FrameAppend(a, b) == [cols |-> a.cols, index |-> a.index \o b.index, rows |-> a.rows \o b.rows]

\* mutant: the rows drawn with replacement, the first drawn position every time
rand_subset_with_replacement(gen, X, y, subset_frac) ==
  IF RatLess(subset_frac, R(1))
  THEN LET X_copy == WithY(X, y)
           n == RoundHalfEven(RatMul(subset_frac, R(NRows(X_copy))))
           samp == FrameTake(X_copy, [i \in 1..n |-> gen[NRows(X_copy)][1]])
       IN <<DropY(samp), YOf(samp)>>
  ELSE <<X, y>>

\* rand_subset: <<X_samp, y_samp>>
rand_subset(gen, X, y, subset_frac) ==
  IF RatLess(subset_frac, R(1))
  THEN LET samp == SampleFrac(gen, WithY(X, y), subset_frac)
       IN <<DropY(samp), YOf(samp)>>
  ELSE <<X, y>>

\* mutant: each class is given the whole target count, not half of it
imbalanced_subsample_no_half(gen, X, y, subset_frac) ==
  IF RatLess(subset_frac, R(1))
  THEN LET X_copy == WithY(X, y)
           X_copy_T == FrameTake(X_copy, Positions([i \in 1..NRows(X_copy) |-> X_copy.rows[i]["y"] = TRUE]))
           X_copy_F == FrameTake(X_copy, Positions([i \in 1..NRows(X_copy) |-> X_copy.rows[i]["y"] = FALSE]))
           whole == Floor(RatMul(R(NRows(X_copy)), subset_frac))
           samp_T == IF NRows(X_copy_T) >= whole THEN SampleN(gen, X_copy_T, whole) ELSE X_copy_T
           samp_F == IF NRows(X_copy_F) >= whole THEN SampleN(gen, X_copy_F, whole) ELSE X_copy_F
           samp == FrameAppend(samp_T, samp_F)
       IN <<DropY(samp), YOf(samp)>>
  ELSE <<X, y>>

\* imbalanced_subsample: <<X_samp, y_samp>>
imbalanced_subsample(gen, X, y, subset_frac) ==
  IF RatLess(subset_frac, R(1))
  THEN LET X_copy == WithY(X, y)
           X_copy_T == FrameTake(X_copy, Positions([i \in 1..NRows(X_copy) |-> X_copy.rows[i]["y"] = TRUE]))
           X_copy_F == FrameTake(X_copy, Positions([i \in 1..NRows(X_copy) |-> X_copy.rows[i]["y"] = FALSE]))
           num_samp == RatMul(R(NRows(X_copy)), subset_frac)
           half == Floor(RatFloorDiv(num_samp, 2))
           samp_T == IF NRows(X_copy_T) >= half THEN SampleN(gen, X_copy_T, half) ELSE X_copy_T
           samp_F == IF NRows(X_copy_F) >= half THEN SampleN(gen, X_copy_F, half) ELSE X_copy_F
           samp == FrameAppend(samp_T, samp_F)
       IN <<DropY(samp), YOf(samp)>>
  ELSE <<X, y>>

(* ------------------------------------------------------------------ *)
(* Normalizing and aligning                                            *)
(* ------------------------------------------------------------------ *)
\* np.log to one decimal place; -inf at 0, NaN below 0
Log(v) ==
  IF ~IsFinite(v) THEN NaN
  ELSE IF v[1] < 0 THEN NaN
  ELSE IF v[1] = 0 THEN NegInf
  ELSE CASE v = R(1) -> R(0)
         [] v = R(30) -> <<34, 10>>
         [] v = R(60) -> <<41, 10>>
         [] v = R(90) -> <<45, 10>>
         [] v = R(120) -> <<48, 10>>
         [] v = R(240) -> <<55, 10>>

\* np.sqrt of a rational a >= 0, cut to two decimal places
Sqrt(a) ==
  LET n == (a[1] * 10000) \div a[2]
      k == CHOOSE k \in 0..n : k * k <= n /\ (k + 1) * (k + 1) > n
  IN Rat(k, 100)

RECURSIVE RatSum(_)
RatSum(s) == IF s = <<>> THEN R(0) ELSE RatAdd(Head(s), RatSum(Tail(s)))

\* frame[columns] with np.log applied to the columns logged
LogColumns(f, columns, logged) ==
  [cols |-> columns, index |-> f.index,
   rows |-> [i \in 1..NRows(f) |->
      [c \in Range(columns) |-> IF c \in Range(logged) THEN Log(f.rows[i][c]) ELSE f.rows[i][c]]]]

\* check_array(force_all_finite='allow-nan', ensure_min_samples=1) accepts the frame
ArrayOk(f) ==
  /\ NRows(f) >= 1
  /\ \A i \in 1..NRows(f) : \A c \in Range(f.cols) : IsFinite(f.rows[i][c]) \/ IsNaN(f.rows[i][c])

\* StandardScaler.fit: per column, mean and standard deviation (ddof=0) of the values
\* that are not NaN; a zero standard deviation is replaced by 1
StandardScalerFit(f) ==
  LET values(c) == SelectSeq([i \in 1..NRows(f) |-> f.rows[i][c]], LAMBDA v : ~IsNaN(v))
      mean(c) == IF values(c) = <<>> THEN NaN ELSE RatDiv(RatSum(values(c)), R(Len(values(c))))
      sq(c) == [i \in 1..Len(values(c)) |->
                  RatMul(RatSub(values(c)[i], mean(c)), RatSub(values(c)[i], mean(c)))]
      var(c) == IF values(c) = <<>> THEN NaN ELSE RatDiv(RatSum(sq(c)), R(Len(values(c))))
      scale(c) == IF ~IsFinite(var(c)) THEN NaN
                  ELSE IF Sqrt(var(c)) = R(0) THEN R(1) ELSE Sqrt(var(c))
  IN [fitted |-> TRUE, columns |-> f.cols,
      mean_ |-> [c \in Range(f.cols) |-> mean(c)],
      scale_ |-> [c \in Range(f.cols) |-> scale(c)]]

\* mutant: fit_transform where transform was meant, the parameters refitted on f
StandardScalerTransform_refit(sc, f) ==
  LET re == StandardScalerFit(f)
  IN [f EXCEPT !.rows = [i \in 1..NRows(f) |->
       [c \in Range(f.cols) |-> RatDiv(RatSub(f.rows[i][c], re.mean_[c]), re.scale_[c])]]]

\* StandardScaler.transform: (x - mean_) / scale_
StandardScalerTransform(sc, f) ==
  [f EXCEPT !.rows = [i \in 1..NRows(f) |->
     [c \in Range(f.cols) |-> RatDiv(RatSub(f.rows[i][c], sc.mean_[c]), sc.scale_[c])]]]

\* mutant: the scaled columns taken out and put back after the other columns
AssignColumns_moved_last(X, columns, scaled) ==
  LET cols == SelectSeq(X.cols, LAMBDA c : c \notin Range(columns)) \o columns
  IN [cols |-> cols, index |-> X.index,
      rows |-> [i \in 1..NRows(X) |->
         [c \in Range(cols) |-> IF c \in Range(columns) THEN scaled.rows[i][c] ELSE X.rows[i][c]]]]

\* X_out[columns]=scaled: the scaled columns written over a copy of X, by position
AssignColumns(X, columns, scaled) ==
  [X EXCEPT !.rows = [i \in 1..NRows(X) |->
     [c \in Range(X.cols) |-> IF c \in Range(columns) THEN scaled.rows[i][c] ELSE X.rows[i][c]]]]

\* StandardScaler(): nothing fitted yet
UnfittedScaler ==
  [fitted |-> FALSE, columns |-> <<>>,
   mean_ |-> [c \in {} |-> NaN], scale_ |-> [c \in {} |-> NaN]]

\* DataFrame.reindex(columns=..., fill_value=0)
reindex(f, columns) ==
  [cols |-> columns, index |-> f.index,
   rows |-> [i \in 1..NRows(f) |->
      [c \in Range(columns) |-> IF c \in Range(f.cols) THEN f.rows[i][c] ELSE R(0)]]]

\* mutant: the missing training columns are added, the extra columns are not dropped
missing_cat_add_keeps_extra(Xt, Xv) ==
  reindex(Xv, Xv.cols \o SelectSeq(Xt.cols, LAMBDA c : c \notin Range(Xv.cols)))

missing_cat_add(Xt, Xv) == reindex(Xv, Xt.cols)

VARIABLES
  train_data, val_data,    \* the rows of the training and of the validation month files
  num_airports, imbalanced, rand_frac_train,   \* the input cell's settings that vary
  rng,                     \* RandomState(0): for each length, the permutation it draws
  pc, phase, error,        \* position in the training cell; which import_data call; exception raised
  \* import_data's locals
  df, airports, restricted, df_restricted, X, y_full, X_hours, X_full, X_samp, y_samp,
  \* the training cell's globals
  X_train, y_train, nb_airports, y_train_full, X_val, y_val,
  \* normalize's locals and results
  scaler, X_train_out, X_train_normalized, X_val_norm0, X_val_normalized,
  \* the classifier, its predictions, and the files written to the output folder
  model, val_probs, persisted

inputs == <<train_data, val_data, num_airports, imbalanced, rand_frac_train, rng>>
locals == <<df, airports, restricted, df_restricted, X, y_full, X_hours, X_full, X_samp, y_samp>>
globals == <<X_train, y_train, nb_airports, y_train_full, X_val, y_val>>
normals == <<scaler, X_train_out, X_train_normalized, X_val_norm0, X_val_normalized>>
outputs == <<model, val_probs, persisted>>
vars == <<inputs, pc, phase, error, locals, globals, normals, outputs>>

(* ------------------------------------------------------------------ *)
(* The training cell, step by step                                     *)
(* ------------------------------------------------------------------ *)
\* import_data: df=read_flight_csv(filenames,X_vars+y_var)
Read ==
  /\ pc = "read"
  /\ df' = read_flight_csv(IF phase = "train" THEN train_data ELSE val_data)
  /\ pc' = "dropna"
  /\ UNCHANGED <<inputs, phase, error, airports, restricted, df_restricted, X, y_full, X_hours,
                 X_full, X_samp, y_samp, globals, normals>>
  /\ UNCHANGED outputs

\* import_data: df.dropna(inplace=True)
DropNa ==
  /\ pc = "dropna"
  /\ df' = dropna(df)
  /\ pc' = "airports"
  /\ UNCHANGED <<inputs, phase, error, airports, restricted, df_restricted, X, y_full, X_hours,
                 X_full, X_samp, y_samp, globals, normals>>
  /\ UNCHANGED outputs

\* mutant: airport_select called in every import, the list given ignored
Airports_reselect ==
  /\ pc = "airports"
  /\ airports' \in airport_select(df, num_airports)
  /\ pc' = "restrict"
  /\ UNCHANGED <<inputs, phase, error, df, restricted, df_restricted, X, y_full, X_hours,
                 X_full, X_samp, y_samp, globals, normals>>
  /\ UNCHANGED outputs

\* import_data: the airports list given (validation) or airport_select (training)
Airports ==
  /\ pc = "airports"
  /\ airports' \in (IF phase = "val" THEN {nb_airports} ELSE airport_select(df, num_airports))
  /\ pc' = "restrict"
  /\ UNCHANGED <<inputs, phase, error, df, restricted, df_restricted, X, y_full, X_hours,
                 X_full, X_samp, y_samp, globals, normals>>
  /\ UNCHANGED outputs

\* import_data: airport_restrict(df,airports)
Restrict ==
  /\ pc = "restrict"
  /\ restricted' = airport_restrict(df, airports)
  /\ pc' = "names"
  /\ UNCHANGED <<inputs, phase, error, df, airports, df_restricted, X, y_full, X_hours,
                 X_full, X_samp, y_samp, globals, normals>>
  /\ UNCHANGED outputs

\* import_data: df_restricted=airline_names(...)
Names ==
  /\ pc = "names"
  /\ df_restricted' = airline_names(restricted)
  /\ pc' = "predictors"
  /\ UNCHANGED <<inputs, phase, error, df, airports, restricted, X, y_full, X_hours,
                 X_full, X_samp, y_samp, globals, normals>>
  /\ UNCHANGED outputs

\* import_data: X,y_full=predictors_and_target(df_restricted,...)
Predictors ==
  /\ pc = "predictors"
  /\ X' = predictors_X(df_restricted, X_vars, X_vars_categorical)
  /\ y_full' = predictors_y(df_restricted, delay_minutes)
  /\ pc' = "hours"
  /\ UNCHANGED <<inputs, phase, error, df, airports, restricted, df_restricted, X_hours,
                 X_full, X_samp, y_samp, globals, normals>>
  /\ UNCHANGED outputs

\* import_data: X_hours=convert_hours(X,X_vars_hours)
Hours ==
  /\ pc = "hours"
  /\ X_hours' = convert_hours(X, X_vars_hours)
  /\ pc' = "cyclical"
  /\ UNCHANGED <<inputs, phase, error, df, airports, restricted, df_restricted, X, y_full,
                 X_full, X_samp, y_samp, globals, normals>>
  /\ UNCHANGED outputs

\* import_data: X_full=convert_cyclical(X_hours,X_vars_cyclical_dict)
Cyclical ==
  /\ pc = "cyclical"
  /\ X_full' = convert_cyclical(X_hours, X_vars_cyclical_dict)
  /\ pc' = "subsample"
  /\ UNCHANGED <<inputs, phase, error, df, airports, restricted, df_restricted, X, y_full,
                 X_hours, X_samp, y_samp, globals, normals>>
  /\ UNCHANGED outputs

\* the fraction the current import_data call was given
rand_frac == IF phase = "train" THEN rand_frac_train ELSE rand_frac_val

\* import_data: imbalanced_subsample or rand_subset of X_full,y_full
Subsample ==
  /\ pc = "subsample"
  /\ LET samp == IF imbalanced
                 THEN imbalanced_subsample(rng, X_full, y_full, rand_frac)
                 ELSE rand_subset(rng, X_full, y_full, rand_frac)
     IN /\ X_samp' = samp[1]
        /\ y_samp' = samp[2]
  /\ pc' = "return"
  /\ UNCHANGED <<inputs, phase, error, df, airports, restricted, df_restricted, X, y_full,
                 X_hours, X_full, globals, normals>>
  /\ UNCHANGED outputs

\* import_data returns to the training cell, which binds the results
Return ==
  /\ pc = "return"
  /\ IF phase = "train"
     THEN /\ X_train' = X_samp
          /\ y_train' = y_samp
          /\ nb_airports' = airports
          /\ y_train_full' = y_full
          /\ phase' = "val"
          /\ pc' = "read"
          /\ UNCHANGED <<X_val, y_val>>
     ELSE /\ X_val' = X_samp
          /\ y_val' = y_samp
          /\ pc' = "normalize_train"
          /\ UNCHANGED <<X_train, y_train, nb_airports, y_train_full, phase>>
  /\ UNCHANGED <<inputs, error, locals, normals>>
  /\ UNCHANGED outputs

\* normalize, to X_train_out[X_vars_normalize]=train_scaled
NormalizeTrain ==
  /\ pc = "normalize_train"
  /\ LET train_to_scale == LogColumns(X_train, X_vars_normalize, X_vars_log)
     IN IF ArrayOk(train_to_scale)
        THEN /\ scaler' = StandardScalerFit(train_to_scale)
             /\ X_train_out' = AssignColumns(X_train, X_vars_normalize,
                                             StandardScalerTransform(scaler', train_to_scale))
             /\ pc' = "normalize_val"
             /\ error' = error
        ELSE /\ pc' = "failed"
             /\ error' = "ValueError"
             /\ UNCHANGED <<scaler, X_train_out>>
  /\ UNCHANGED <<inputs, phase, locals, globals, X_train_normalized, X_val_norm0, X_val_normalized>>
  /\ UNCHANGED outputs

\* normalize, from val_to_scale[X_vars_log]=np.log(val_to_log) to the return
NormalizeVal ==
  /\ pc = "normalize_val"
  /\ LET val_to_scale == LogColumns(X_val, X_vars_normalize, X_vars_log)
     IN IF ArrayOk(val_to_scale)
        THEN /\ X_val_norm0' = AssignColumns(X_val, X_vars_normalize,
                                             StandardScalerTransform(scaler, val_to_scale))
             /\ X_train_normalized' = X_train_out
             /\ pc' = "missing_cat_add"
             /\ error' = error
        ELSE /\ pc' = "failed"
             /\ error' = "ValueError"
             /\ UNCHANGED <<X_train_normalized, X_val_norm0>>
  /\ UNCHANGED <<inputs, phase, locals, globals, scaler, X_train_out, X_val_normalized>>
  /\ UNCHANGED outputs

\* X_val_normalized=missing_cat_add(X_train_normalized,X_val_norm0)
MissingCatAdd ==
  /\ pc = "missing_cat_add"
  /\ X_val_normalized' = missing_cat_add(X_train_normalized, X_val_norm0)
  /\ pc' = "done"
  /\ UNCHANGED <<inputs, phase, error, locals, globals, scaler, X_train_out,
                 X_train_normalized, X_val_norm0>>
  /\ UNCHANGED outputs

(* ------------------------------------------------------------------ *)
(* Training the classifier and saving the run                          *)
(* ------------------------------------------------------------------ *)
\* make_model(): a network whose input width is the training matrix's, not yet fitted
make_model == [fitted |-> FALSE, input_shape |-> Len(X_train_normalized.cols)]
\* no model made yet
NoModel == [fitted |-> FALSE, input_shape |-> 0]
\* the output folder before the run
NoFiles == [n \in {} |-> NaN]
\* np.mean of a boolean Series
Mean(y) == Rat(Cardinality({i \in 1..Len(y.vals) : y.vals[i]}), Len(y.vals))

\* model=make_model(); model.fit(X_train_normalized,y_train,...,validation_data=...):
\* keras rejects a matrix whose width is not the input layer's
Fit ==
  /\ pc = "done"
  /\ IF Len(X_val_normalized.cols) = make_model.input_shape
     THEN /\ model' = [make_model EXCEPT !.fitted = TRUE]
          /\ pc' = "model_save"
          /\ error' = error
     ELSE /\ model' = make_model
          /\ pc' = "failed"
          /\ error' = "ValueError"
  /\ UNCHANGED <<inputs, phase, locals, globals, normals, val_probs, persisted>>

\* one write to the output folder: the file is written, or the write raises (missing
\* folder, full disk) and the cell stops there
Write(ok, name, value, next) ==
  IF ok
  THEN /\ persisted' = [n \in DOMAIN persisted \cup {name} |-> IF n = name THEN value ELSE persisted[n]]
       /\ pc' = next
       /\ error' = error
  ELSE /\ persisted' = persisted
       /\ pc' = "failed"
       /\ error' = "OSError"

\* model.save(...'saved_model')
ModelSave ==
  /\ pc = "model_save"
  /\ \E ok \in BOOLEAN : Write(ok, "saved_model", model, "dump_scaler")
  /\ UNCHANGED <<inputs, phase, locals, globals, normals, model, val_probs>>

\* dump(scaler,output_folder+'scaler.joblib')
DumpScaler ==
  /\ pc = "dump_scaler"
  /\ \E ok \in BOOLEAN : Write(ok, "scaler.joblib", scaler, "predict_proba")
  /\ UNCHANGED <<inputs, phase, locals, globals, normals, model, val_probs>>

\* val_probs=model.predict_proba(X_val_normalized): one probability per row
PredictProba ==
  /\ pc = "predict_proba"
  /\ val_probs' = [index |-> X_val_normalized.index]
  /\ pc' = "dump_val_probs"
  /\ UNCHANGED <<inputs, phase, error, locals, globals, normals, model, persisted>>

\* dump(val_probs,output_folder+'val_probs.joblib')
DumpValProbs ==
  /\ pc = "dump_val_probs"
  /\ \E ok \in BOOLEAN : Write(ok, "val_probs.joblib", val_probs, "dump_X_train_cols")
  /\ UNCHANGED <<inputs, phase, locals, globals, normals, model, val_probs>>

\* dump(X_train.columns.values.tolist(),output_folder+'X_train_cols.joblib')
DumpXTrainCols ==
  /\ pc = "dump_X_train_cols"
  /\ \E ok \in BOOLEAN : Write(ok, "X_train_cols.joblib", X_train.cols, "dump_Train_delay_proportion")
  /\ UNCHANGED <<inputs, phase, locals, globals, normals, model, val_probs>>

\* dump(np.mean(y_train_full),output_folder+'Train_delay_proportion.joblib')
DumpTrainDelayProportion ==
  /\ pc = "dump_Train_delay_proportion"
  /\ \E ok \in BOOLEAN : Write(ok, "Train_delay_proportion.joblib", Mean(y_train_full), "dump_airports")
  /\ UNCHANGED <<inputs, phase, locals, globals, normals, model, val_probs>>

\* dump(airports,output_folder+'airports.joblib')
DumpAirports ==
  /\ pc = "dump_airports"
  /\ \E ok \in BOOLEAN : Write(ok, "airports.joblib", nb_airports, "dump_X_vars_normalize")
  /\ UNCHANGED <<inputs, phase, locals, globals, normals, model, val_probs>>

\* dump(X_vars_normalize,output_folder+'X_vars_normalize.joblib')
DumpXVarsNormalize ==
  /\ pc = "dump_X_vars_normalize"
  /\ \E ok \in BOOLEAN : Write(ok, "X_vars_normalize.joblib", X_vars_normalize, "dump_X_vars_log")
  /\ UNCHANGED <<inputs, phase, locals, globals, normals, model, val_probs>>

\* dump(X_vars_log,output_folder+'X_vars_log.joblib')
DumpXVarsLog ==
  /\ pc = "dump_X_vars_log"
  /\ \E ok \in BOOLEAN : Write(ok, "X_vars_log.joblib", X_vars_log, "dump_X_vars_categorical")
  /\ UNCHANGED <<inputs, phase, locals, globals, normals, model, val_probs>>

\* dump(X_vars_categorical,output_folder+'X_vars_categorical.joblib')
DumpXVarsCategorical ==
  /\ pc = "dump_X_vars_categorical"
  /\ \E ok \in BOOLEAN : Write(ok, "X_vars_categorical.joblib", X_vars_categorical, "dump_X_vars_hours")
  /\ UNCHANGED <<inputs, phase, locals, globals, normals, model, val_probs>>

\* dump(X_vars_hours,output_folder+'X_vars_hours.joblib')
DumpXVarsHours ==
  /\ pc = "dump_X_vars_hours"
  /\ \E ok \in BOOLEAN : Write(ok, "X_vars_hours.joblib", X_vars_hours, "dump_X_vars_cyclical_dict")
  /\ UNCHANGED <<inputs, phase, locals, globals, normals, model, val_probs>>

\* dump(X_vars_cyclical_dict,output_folder+'X_vars_cyclical_dict.joblib')
DumpXVarsCyclicalDict ==
  /\ pc = "dump_X_vars_cyclical_dict"
  /\ \E ok \in BOOLEAN : Write(ok, "X_vars_cyclical_dict.joblib", X_vars_cyclical_dict, "dump_delay_minutes")
  /\ UNCHANGED <<inputs, phase, locals, globals, normals, model, val_probs>>

\* dump(delay_minutes,output_folder+'delay_minutes.joblib')
DumpDelayMinutes ==
  /\ pc = "dump_delay_minutes"
  /\ \E ok \in BOOLEAN : Write(ok, "delay_minutes.joblib", delay_minutes, "dump_subsample_imbalanced")
  /\ UNCHANGED <<inputs, phase, locals, globals, normals, model, val_probs>>

\* dump(imbalanced,output_folder+'subsample_imbalanced.joblib')
DumpSubsampleImbalanced ==
  /\ pc = "dump_subsample_imbalanced"
  /\ \E ok \in BOOLEAN : Write(ok, "subsample_imbalanced.joblib", imbalanced, "saved")
  /\ UNCHANGED <<inputs, phase, locals, globals, normals, model, val_probs>>

Next ==
  \/ Read
  \/ DropNa
  \/ Airports
  \/ Restrict
  \/ Names
  \/ Predictors
  \/ Hours
  \/ Cyclical
  \/ Subsample
  \/ Return
  \/ NormalizeTrain
  \/ NormalizeVal
  \/ MissingCatAdd
  \/ Fit
  \/ ModelSave
  \/ DumpScaler
  \/ PredictProba
  \/ DumpValProbs
  \/ DumpXTrainCols
  \/ DumpTrainDelayProportion
  \/ DumpAirports
  \/ DumpXVarsNormalize
  \/ DumpXVarsLog
  \/ DumpXVarsCategorical
  \/ DumpXVarsHours
  \/ DumpXVarsCyclicalDict
  \/ DumpDelayMinutes
  \/ DumpSubsampleImbalanced

(* ------------------------------------------------------------------ *)
(* Initial states: the month files and settings a run starts from      *)
(* ------------------------------------------------------------------ *)
\* the state an airport is in
StateOf(a) == CASE a = "ATL" -> "GA" [] a = "BOS" -> "MA" [] a = "JFK" -> "NY"

\* one flight record
Flight(month, airline, origin, dest, dep, elapsed, delay) ==
  [Month |-> month, DayOfWeek |-> R(2), Reporting_Airline |-> airline,
   Origin |-> origin, OriginState |-> StateOf(origin),
   Dest |-> dest, DestState |-> StateOf(dest),
   CRSDepTime |-> dep, CRSArrTime |-> R(1630),
   ArrDelayMinutes |-> delay, CRSElapsedTime |-> elapsed]

BaseFlight == Flight(R(5), "DL", "ATL", "BOS", R(1415), R(120), R(0))

\* the tables of 1..MaxRows rows drawn from S
Tables(S) == UNION {[1..n -> S] : n \in 1..MaxRows}

\* the generator that draws every length in ascending order
IdentityRng == [n \in 0..MaxSampleRows |-> [i \in 1..n |-> i]]
\* the generators considered: each draws, for every length n, the positions 1..n in the
\* order they have in one arrangement of 1..MaxSampleRows, a rotation or the reversal
Arrangements ==
  {[i \in 1..MaxSampleRows |-> ((i + k - 1) % MaxSampleRows) + 1] : k \in 0..(MaxSampleRows - 1)}
    \cup {[i \in 1..MaxSampleRows |-> MaxSampleRows + 1 - i]}
Rngs == {[n \in 0..MaxSampleRows |-> SelectSeq(p, LAMBDA x : x <= n)] : p \in Arrangements}

\* before the training cell runs: nothing read, nothing fitted
Start ==
  /\ pc = "read"
  /\ phase = "train"
  /\ error = ""
  /\ df = EmptyFrame
  /\ airports = <<>>
  /\ restricted = EmptyFrame
  /\ df_restricted = EmptyFrame
  /\ X = EmptyFrame
  /\ y_full = EmptySeries
  /\ X_hours = EmptyFrame
  /\ X_full = EmptyFrame
  /\ X_samp = EmptyFrame
  /\ y_samp = EmptySeries
  /\ X_train = EmptyFrame
  /\ y_train = EmptySeries
  /\ nb_airports = <<>>
  /\ y_train_full = EmptySeries
  /\ X_val = EmptyFrame
  /\ y_val = EmptySeries
  /\ scaler = UnfittedScaler
  /\ X_train_out = EmptyFrame
  /\ X_train_normalized = EmptyFrame
  /\ X_val_norm0 = EmptyFrame
  /\ X_val_normalized = EmptyFrame
  /\ model = NoModel
  /\ val_probs = [index |-> <<>>]
  /\ persisted = NoFiles

\* runs that differ in the carriers and the delays of the training flights
FeatureFlights ==
  {Flight(R(5), a, "ATL", "BOS", R(1415), R(120), d) : a \in {"DL", "VX", "ZZ"}, d \in {R(14), R(15)}}
    \cup {Flight(R(5), "AS", "ATL", "BOS", R(1415), R(120), NaN)}

Init ==
  /\ train_data \in Tables(FeatureFlights)
  /\ val_data \in {<<BaseFlight>>, <<Flight(R(5), "ZZ", "ATL", "BOS", R(1415), R(120), R(20)), BaseFlight>>}
  /\ num_airports = 2
  /\ imbalanced = FALSE
  /\ rand_frac_train = <<1, 1>>
  /\ rng = IdentityRng
  /\ Start

Spec == Init /\ [][Next]_vars

\* runs that differ in the scheduled durations and the carriers of the two splits
NormalizeTrainFlights ==
  {Flight(R(5), "DL", "ATL", "BOS", R(1415), R(60), R(0)),
   Flight(R(5), "DL", "ATL", "BOS", R(1415), R(240), R(0)),
   Flight(R(5), "AS", "ATL", "BOS", R(1415), R(240), R(30))}
NormalizeValFlights ==
  {Flight(R(5), "DL", "ATL", "BOS", R(1415), R(60), R(0)),
   Flight(R(5), "VX", "ATL", "BOS", R(1415), R(120), R(30))}

InitNormalize ==
  /\ train_data \in Tables(NormalizeTrainFlights)
  /\ val_data \in Tables(NormalizeValFlights)
  /\ num_airports = 3
  /\ imbalanced = FALSE
  /\ rand_frac_train = <<1, 1>>
  /\ rng = IdentityRng
  /\ Start

SpecNormalize == InitNormalize /\ [][Next]_vars

\* runs that subsample the training flights by class: delayed and punctual flights,
\* every fraction k/FracDen, every generator
ImbalancedFlights ==
  {Flight(R(5), "DL", "ATL", "BOS", R(1415), R(120), d) : d \in {R(0), R(30)}}

InitImbalanced ==
  /\ train_data \in UNION {[1..n -> ImbalancedFlights] : n \in 1..MaxSampleRows}
  /\ val_data = <<BaseFlight, Flight(R(5), "DL", "ATL", "BOS", R(1415), R(120), R(30)), BaseFlight>>
  /\ num_airports = 2
  /\ imbalanced = TRUE
  /\ rand_frac_train \in {Rat(k, FracDen) : k \in 1..FracDen}
  /\ rng \in Rngs
  /\ Start

SpecImbalanced == InitImbalanced /\ [][Next]_vars

\* runs that subsample the training flights uniformly: tables of 1..MaxSampleRows
\* flights, each of a month of its own, delayed and punctual in turn; every fraction
\* k/FracDen, every generator
UniformFlight(i) ==
  Flight(R(i), "DL", "ATL", "BOS", R(1415), R(120), IF i % 2 = 0 THEN R(30) ELSE R(0))

InitUniform ==
  /\ train_data \in {[i \in 1..n |-> UniformFlight(i)] : n \in 1..MaxSampleRows}
  /\ val_data = <<BaseFlight, Flight(R(5), "DL", "ATL", "BOS", R(1415), R(120), R(30)), BaseFlight>>
  /\ num_airports = 2
  /\ imbalanced = FALSE
  /\ rand_frac_train \in {Rat(k, FracDen) : k \in 1..FracDen}
  /\ rng \in Rngs
  /\ Start

SpecUniform == InitUniform /\ [][Next]_vars

\* runs that differ in the routes flown in the training months and in the number of
\* airports asked for
AirportCodes == {"ATL", "BOS", "JFK"}
RouteFlights ==
  {Flight(R(5), "DL", o, d, R(1415), R(120), R(0)) : o \in AirportCodes, d \in AirportCodes} \
    {Flight(R(5), "DL", a, a, R(1415), R(120), R(0)) : a \in AirportCodes}

InitAirports ==
  /\ train_data \in Tables(RouteFlights)
  /\ val_data = <<BaseFlight, Flight(R(5), "DL", "JFK", "ATL", R(1415), R(120), R(0))>>
  /\ num_airports \in 1..Cardinality(AirportCodes)
  /\ imbalanced = FALSE
  /\ rand_frac_train = <<1, 1>>
  /\ rng = IdentityRng
  /\ Start

SpecAirports == InitAirports /\ [][Next]_vars

\* runs whose scheduled durations include zero and a negative number of minutes
DomainTrainFlights ==
  {Flight(R(5), "DL", "ATL", "BOS", R(1415), e, R(0)) : e \in {R(60), R(0), R(-30)}}
DomainValFlights ==
  {Flight(R(5), "DL", "ATL", "BOS", R(1415), e, R(30)) : e \in {R(120), R(0), R(-30)}}

InitDomain ==
  /\ train_data \in Tables(DomainTrainFlights)
  /\ val_data \in {<<v>> : v \in DomainValFlights}
  /\ num_airports = 2
  /\ imbalanced = FALSE
  /\ rand_frac_train = <<1, 1>>
  /\ rng = IdentityRng
  /\ Start

SpecDomain == InitDomain /\ [][Next]_vars

\* runs whose training months hold a record with no arrival delay on a route of its own
\* and whose validation months fly routes in other proportions
AirportSetFlights ==
  {Flight(R(5), "DL", "ATL", "BOS", R(1415), R(120), R(0)),
   Flight(R(5), "DL", "BOS", "ATL", R(1415), R(120), R(0)),
   Flight(R(5), "DL", "JFK", "ATL", R(1415), R(120), R(0)),
   Flight(R(5), "DL", "ATL", "JFK", R(1415), R(120), NaN)}

InitAirportSet ==
  /\ train_data \in Tables(AirportSetFlights)
  /\ val_data = <<BaseFlight, Flight(R(5), "DL", "JFK", "ATL", R(1415), R(120), R(0)),
                  Flight(R(5), "DL", "ATL", "JFK", R(1415), R(120), R(30))>>
  /\ num_airports \in 1..Cardinality(AirportCodes)
  /\ imbalanced = FALSE
  /\ rand_frac_train = <<1, 1>>
  /\ rng = IdentityRng
  /\ Start

SpecAirportSet == InitAirportSet /\ [][Next]_vars

\* runs that subsample, uniformly or by class, flights that differ in month and delay,
\* one of them with no delay recorded
PairingFlights ==
  {Flight(R(1), "DL", "ATL", "BOS", R(1415), R(60), R(0)),
   Flight(R(4), "DL", "ATL", "BOS", R(1415), R(120), R(30)),
   Flight(R(7), "DL", "ATL", "BOS", R(1415), R(240), NaN)}

InitPairing ==
  /\ train_data \in Tables(PairingFlights)
  /\ val_data = <<Flight(R(7), "DL", "ATL", "BOS", R(1415), R(240), NaN),
                  Flight(R(4), "DL", "ATL", "BOS", R(1415), R(120), R(30)),
                  Flight(R(1), "DL", "ATL", "BOS", R(1415), R(60), R(0))>>
  /\ num_airports = 2
  /\ imbalanced \in BOOLEAN
  /\ rand_frac_train \in {Rat(k, FracDen) : k \in 1..FracDen}
  /\ rng \in Rngs
  /\ Start

SpecPairing == InitPairing /\ [][Next]_vars

\* runs that differ in the months and the scheduled departure times of the flights
TimeFlights ==
  {Flight(R(m), "DL", "ATL", "BOS", R(t), R(120), R(0)) : m \in {1, 6, 11}, t \in {0, 1415, 2359}}

InitTimes ==
  /\ train_data \in Tables(TimeFlights)
  /\ val_data = <<BaseFlight, Flight(R(12), "DL", "ATL", "BOS", R(959), R(120), R(0))>>
  /\ num_airports = 2
  /\ imbalanced = FALSE
  /\ rand_frac_train = <<1, 1>>
  /\ rng = IdentityRng
  /\ Start

SpecTimes == InitTimes /\ [][Next]_vars

(* ------------------------------------------------------------------ *)
(* Properties                                                          *)
(* ------------------------------------------------------------------ *)

\* C1: missing_cat_add returns a matrix whose column list is the reference's, in the
\* reference's order; a reference column the target lacks is 0 in every row, a target
\* column the reference lacks is gone, and a column of both keeps the target's values
\* row for row.
C1_SchemaAligned ==
  pc = "done" =>
    /\ X_val_normalized.cols = X_train_normalized.cols
    /\ X_val_normalized.index = X_val_norm0.index
    /\ \A i \in 1..NRows(X_val_normalized) :
         /\ DOMAIN X_val_normalized.rows[i] = Range(X_train_normalized.cols)
         /\ \A c \in Range(X_train_normalized.cols) :
              X_val_normalized.rows[i][c] =
                IF c \in Range(X_val_norm0.cols) THEN X_val_norm0.rows[i][c] ELSE R(0)

\* C1 witness: an aligned validation matrix that lacked a training column, had a column
\* the training matrix lacks, and shared columns with it
C1_Witness ==
  /\ pc = "done"
  /\ NRows(X_val_normalized) >= 1
  /\ Range(X_train_normalized.cols) \ Range(X_val_norm0.cols) # {}
  /\ Range(X_val_norm0.cols) \ Range(X_train_normalized.cols) # {}
  /\ Range(X_val_norm0.cols) \cap Range(X_train_normalized.cols) # {}

\* the value normalize works on: the cell, logged if its column is logged
Logged(c, v) == IF c \in Range(X_vars_log) THEN Log(v) ELSE v
\* mean and standard deviation of column c of the frame f, after the optional log
ColumnMean(f, c) ==
  RatDiv(RatSum([i \in 1..NRows(f) |-> Logged(c, f.rows[i][c])]), R(NRows(f)))
ColumnStd(f, c) ==
  LET dev(i) == RatSub(Logged(c, f.rows[i][c]), ColumnMean(f, c))
      sd == Sqrt(RatDiv(RatSum([i \in 1..NRows(f) |-> RatMul(dev(i), dev(i))]), R(NRows(f))))
  IN IF sd = R(0) THEN R(1) ELSE sd

\* C4: the scaling parameters normalize returns are the mean and standard deviation of
\* the (optionally logged) training columns alone; they are the parameters the training
\* matrix was scaled with, and each validation value is its own logged input scaled
\* with them, whatever the other validation rows hold.
C4_FittedOnTrainingOnly ==
  pc \in {"missing_cat_add", "done"} =>
    \A c \in Range(X_vars_normalize) :
      /\ scaler.mean_[c] = ColumnMean(X_train, c)
      /\ scaler.scale_[c] = ColumnStd(X_train, c)
      /\ \A i \in 1..NRows(X_train) :
           X_train_normalized.rows[i][c] =
             RatDiv(RatSub(Logged(c, X_train.rows[i][c]), scaler.mean_[c]), scaler.scale_[c])
      /\ \A i \in 1..NRows(X_val) :
           X_val_norm0.rows[i][c] =
             RatDiv(RatSub(Logged(c, X_val.rows[i][c]), ColumnMean(X_train, c)), ColumnStd(X_train, c))

\* C4 witness: normalize has returned for a training matrix with spread and a
\* validation matrix of two rows whose values differ from each other
C4_Witness ==
  /\ pc = "missing_cat_add"
  /\ scaler.fitted
  /\ scaler.scale_["CRSElapsedTime"] # R(1)
  /\ NRows(X_val) = 2
  /\ X_val.rows[1]["CRSElapsedTime"] # X_val.rows[2]["CRSElapsedTime"]
  /\ ColumnMean(X_val, "CRSElapsedTime") # ColumnMean(X_train, "CRSElapsedTime")

\* the number of labels of y that equal b
CountLabel(y, b) == Cardinality({i \in 1..Len(y.vals) : y.vals[i] = b})
\* floor(total_rows*f/2), the count the class-balanced draw asks of each class
HalfTarget(n, f) == (n * f[1]) \div (2 * f[2])
Min(a, b) == IF a <= b THEN a ELSE b

\* C2 as stated: for every fraction 0 < f <= 1, f = 1 included, the class-balanced draw
\* returns min(#positive, target_count/2) positive and min(#negative, target_count/2)
\* negative rows, target_count = total_rows*f (the half taken as a whole number of rows).
C2_AsStated ==
  (pc = "return" /\ imbalanced) =>
    /\ CountLabel(y_samp, TRUE) = Min(CountLabel(y_full, TRUE), HalfTarget(NRows(X_full), rand_frac))
    /\ CountLabel(y_samp, FALSE) = Min(CountLabel(y_full, FALSE), HalfTarget(NRows(X_full), rand_frac))

\* C2 amended: for a fraction f < 1 the class-balanced draw returns, without raising,
\* min(#positive, floor(total_rows*f/2)) positive and min(#negative, floor(total_rows*f/2))
\* negative rows; for f = 1 it returns every row, unchanged.
C2_BalancedCounts ==
  (pc = "return" /\ imbalanced) =>
    /\ error = ""
    /\ Len(y_samp.vals) = NRows(X_samp)
    /\ IF RatLess(rand_frac, R(1))
       THEN /\ CountLabel(y_samp, TRUE) = Min(CountLabel(y_full, TRUE), HalfTarget(NRows(X_full), rand_frac))
            /\ CountLabel(y_samp, FALSE) = Min(CountLabel(y_full, FALSE), HalfTarget(NRows(X_full), rand_frac))
       ELSE /\ X_samp = X_full
            /\ y_samp = y_full

\* C2 witness: a class-balanced draw at f < 1 in which the delayed flights are scarce
\* (fewer than the count asked for) and the punctual ones are capped
C2_Witness ==
  /\ pc = "return"
  /\ imbalanced
  /\ RatLess(rand_frac, R(1))
  /\ CountLabel(y_full, TRUE) >= 1
  /\ CountLabel(y_full, TRUE) < HalfTarget(NRows(X_full), rand_frac)
  /\ CountLabel(y_samp, TRUE) = CountLabel(y_full, TRUE)
  /\ CountLabel(y_samp, FALSE) = HalfTarget(NRows(X_full), rand_frac)
  /\ CountLabel(y_samp, FALSE) < CountLabel(y_full, FALSE)

\* the rows of f in which airport a is the origin, plus those in which it is the destination
TotalFlights(f, a) ==
  Cardinality({i \in 1..NRows(f) : f.rows[i]["Origin"] = a})
    + Cardinality({i \in 1..NRows(f) : f.rows[i]["Dest"] = a})
ObservedAirports(f) ==
  {f.rows[i]["Origin"] : i \in 1..NRows(f)} \cup {f.rows[i]["Dest"] : i \in 1..NRows(f)}
\* a comes before b: larger total first, equal totals by code ascending
RankedBefore(f, a, b) ==
  \/ TotalFlights(f, a) > TotalFlights(f, b)
  \/ TotalFlights(f, a) = TotalFlights(f, b) /\ IndexOf(LexOrder, a) < IndexOf(LexOrder, b)
\* the observed airports ranked so
Ranking(f) ==
  CHOOSE q \in [1..Cardinality(ObservedAirports(f)) -> ObservedAirports(f)] :
    \A i, j \in DOMAIN q : i < j => RankedBefore(f, q[i], q[j])

\* C3: airport_select returns the K airports with the largest totals (rows as origin
\* plus rows as destination, a one-sided airport ranked by its one-sided count), by
\* total descending and, among equal totals, by code ascending.
C3_BusiestAirports ==
  (pc = "restrict" /\ phase = "train") =>
    airports = SubSeq(Ranking(df), 1, Min(num_airports, Cardinality(ObservedAirports(df))))

\* C5: predictors_and_target returns one label per input row, in input row order, the
\* i-th true exactly when the i-th record's arrival delay is at least the threshold.
C5_LabelAtThreshold ==
  pc = "hours" =>
    /\ y_full.index = df_restricted.index
    /\ Len(y_full.vals) = NRows(df_restricted)
    /\ \A i \in 1..NRows(df_restricted) :
         LET delay == df_restricted.rows[i]["ArrDelayMinutes"]
         IN y_full.vals[i] = (delay[1] >= delay_minutes * delay[2])

\* C5 witness: labelled records with a delay equal to the threshold and one minute under it
C5_Witness ==
  /\ pc = "hours"
  /\ \E i, j \in 1..NRows(df_restricted) :
       /\ df_restricted.rows[i]["ArrDelayMinutes"] = R(delay_minutes)
       /\ y_full.vals[i]
       /\ df_restricted.rows[j]["ArrDelayMinutes"] = R(delay_minutes - 1)
       /\ ~y_full.vals[j]

\* the indicator columns of X that the categorical column s gave rise to
IndicatorsOf(s) == {c \in Range(X.cols) : \E v \in Range(LexOrder) : c = s \o "_" \o v}

\* C6: predictors_and_target replaces each categorical column by one indicator column
\* <source>_<value> per value observed in it, and no others; in every row exactly one
\* indicator of each categorical source is 1, the one of the row's value; the other
\* predictor columns pass through with their values.
C6_OneHot ==
  pc = "hours" =>
    /\ X.index = df_restricted.index
    /\ \A s \in Range(X_vars_categorical) :
         /\ s \notin Range(X.cols)
         /\ IndicatorsOf(s) = {s \o "_" \o df_restricted.rows[i][s] : i \in 1..NRows(df_restricted)}
         /\ \A i \in 1..NRows(X) :
              /\ Cardinality({c \in IndicatorsOf(s) : X.rows[i][c] = R(1)}) = 1
              /\ \A c \in IndicatorsOf(s) :
                   X.rows[i][c] = IF c = s \o "_" \o df_restricted.rows[i][s] THEN R(1) ELSE R(0)
    /\ \A c \in Range(X_vars) \ Range(X_vars_categorical) :
         /\ c \in Range(X.cols)
         /\ \A i \in 1..NRows(X) : X.rows[i][c] = df_restricted.rows[i][c]
    /\ \A c \in Range(X.cols) :
         c \in Range(X_vars) \/ \E s \in Range(X_vars_categorical) : c \in IndicatorsOf(s)

\* the name the carrier lookup gives the code, the merged carrier under its successor's name
CanonicalName(code) ==
  IF code \notin DOMAIN carrier_dict THEN NullStr
  ELSE IF carrier_dict[code] = "Virgin America" THEN "Alaska Airlines Inc."
  ELSE carrier_dict[code]

\* C7: airline_names replaces every record's carrier code by the name the lookup gives
\* it (none for a code the lookup lacks), Virgin America rewritten to Alaska Airlines
\* Inc. whatever the record's date, every other name kept, no other column changed.
C7_AirlineNames ==
  pc = "predictors" =>
    /\ df_restricted.cols = restricted.cols
    /\ df_restricted.index = restricted.index
    /\ \A i \in 1..NRows(restricted) :
         /\ df_restricted.rows[i]["Reporting_Airline"] = CanonicalName(restricted.rows[i]["Reporting_Airline"])
         /\ df_restricted.rows[i]["Reporting_Airline"] # "Virgin America"
         /\ \A c \in Range(restricted.cols) \ {"Reporting_Airline"} :
              df_restricted.rows[i][c] = restricted.rows[i][c]

\* C7 witness: a Virgin America record renamed beside a record of another carrier
C7_Witness ==
  /\ pc = "predictors"
  /\ \E i, j \in 1..NRows(restricted) :
       /\ restricted.rows[i]["Reporting_Airline"] = "VX"
       /\ df_restricted.rows[i]["Reporting_Airline"] = "Alaska Airlines Inc."
       /\ restricted.rows[j]["Reporting_Airline"] = "DL"
       /\ df_restricted.rows[j]["Reporting_Airline"] = "Delta Air Lines Inc."

\* the record of the table read that has row label k
SourceRecord(k) == (IF phase = "train" THEN train_data ELSE val_data)[k + 1]

\* C8: no row of the feature matrix or label vector import_data returns comes from a
\* record with a null required field, a null airline name from airline_names included.
C8_NoNullRows ==
  pc = "return" =>
    \A k \in Range(X_samp.index) \cup Range(y_samp.index) :
      /\ \A c \in Range(FileColumns) : ~IsNull(c, SourceRecord(k)[c])
      /\ CanonicalName(SourceRecord(k)["Reporting_Airline"]) # NullStr

\* C9: convert_hours maps a packed HHMM integer v in [0,2359] to
\* (60*(v div 100) + (v mod 100))/60 hours (1415 to 14.25, 0 to 0, 2359 to 23 + 59/60)
\* and leaves the columns that are not hour columns as they were.
C9_DecimalHours ==
  pc = "cyclical" =>
    /\ X_hours.cols = X.cols
    /\ X_hours.index = X.index
    /\ \A i \in 1..NRows(X) : \A c \in Range(X.cols) :
         LET v == X.rows[i][c]
         IN IF c \in Range(X_vars_hours)
            THEN /\ (v[2] = 1 /\ 0 <= v[1] /\ v[1] <= 2359) =>
                      X_hours.rows[i][c] = Rat(60 * (v[1] \div 100) + (v[1] % 100), 60)
                 /\ v = R(1415) => X_hours.rows[i][c] = <<57, 4>>
                 /\ v = R(0) => X_hours.rows[i][c] = R(0)
                 /\ v = R(2359) => X_hours.rows[i][c] = RatAdd(R(23), <<59, 60>>)
            ELSE X_hours.rows[i][c] = v

\* C9 witness: the times 0, 1415 and 2359 converted in one table
C9_Witness ==
  /\ pc = "cyclical"
  /\ {R(0), R(1415), R(2359)} \subseteq {X.rows[i]["CRSDepTime"] : i \in 1..NRows(X)}
  /\ {R(0), <<57, 4>>, <<1439, 60>>} \subseteq {X_hours.rows[i]["CRSDepTime"] : i \in 1..NRows(X_hours)}

\* atan2(y, x) in turns, in (-1/2, 1/2], for y = sin and x = cos of one angle, held as
\* SinTurn and CosTurn hold them: the angle u or -u, u the cell of the cosine, whose
\* sine is the cell of the sine
Atan2Turns(sn, cs) == IF SinTurn(cs) = sn THEN cs ELSE RatSub(R(0), cs)

SinName(col) == "sin(" \o col \o ")"
CosName(col) == "cos(" \o col \o ")"
\* row i's value of the cyclical column col lies in [0, P)
InPeriod(i, col, P) == RatLeq(R(0), X_hours.rows[i][col]) /\ RatLess(X_hours.rows[i][col], R(P))

\* C10 as stated: for every value v in [0,P) of a cyclical column, atan2(sin,cos) of the
\* pair convert_cyclical emits is 2*pi*v/P (v/P of a turn).
C10_AsStated ==
  pc = "subsample" =>
    \A k \in 1..Len(X_vars_cyclical_dict) :
      LET col == X_vars_cyclical_dict[k][1]
          P == X_vars_cyclical_dict[k][2]
      IN \A i \in 1..NRows(X_hours) :
           InPeriod(i, col, P) =>
             Atan2Turns(X_full.rows[i][SinName(col)], X_full.rows[i][CosName(col)])
               = RatDiv(X_hours.rows[i][col], R(P))

\* C10 amended: convert_cyclical removes each cyclical column and emits its sine and
\* cosine pair; for every value v in [0,P), atan2(sin,cos) is 2*pi*v/P when v <= P/2 and
\* 2*pi*v/P - 2*pi when v > P/2 (the angle up to a whole turn), so distinct values in
\* [0,P) give distinct pairs.
C10_AngleRecovered ==
  pc = "subsample" =>
    /\ X_full.index = X_hours.index
    /\ \A k \in 1..Len(X_vars_cyclical_dict) :
      LET col == X_vars_cyclical_dict[k][1]
          P == X_vars_cyclical_dict[k][2]
          turn(i) == RatDiv(X_hours.rows[i][col], R(P))
          angle(i) == Atan2Turns(X_full.rows[i][SinName(col)], X_full.rows[i][CosName(col)])
      IN /\ col \notin Range(X_full.cols)
         /\ SinName(col) \in Range(X_full.cols)
         /\ CosName(col) \in Range(X_full.cols)
         /\ \A i \in 1..NRows(X_hours) :
              InPeriod(i, col, P) =>
                angle(i) = IF RatLeq(turn(i), <<1, 2>>) THEN turn(i) ELSE RatSub(turn(i), R(1))
         /\ \A i, j \in 1..NRows(X_hours) :
              (InPeriod(i, col, P) /\ InPeriod(j, col, P)
                 /\ X_hours.rows[i][col] # X_hours.rows[j][col]) =>
                <<X_full.rows[i][SinName(col)], X_full.rows[i][CosName(col)]>>
                  # <<X_full.rows[j][SinName(col)], X_full.rows[j][CosName(col)]>>

\* C10 witness: encoded months 1 and 11, whose cosines are equal, and a month past the
\* half period
C10_Witness ==
  /\ pc = "subsample"
  /\ \E i, j \in 1..NRows(X_hours) :
       /\ X_hours.rows[i]["Month"] = R(1)
       /\ X_hours.rows[j]["Month"] = R(11)
       /\ X_full.rows[i]["cos(Month)"] = X_full.rows[j]["cos(Month)"]
       /\ X_full.rows[i]["sin(Month)"] # X_full.rows[j]["sin(Month)"]
       /\ Atan2Turns(X_full.rows[j]["sin(Month)"], X_full.rows[j]["cos(Month)"]) = <<-1, 12>>

\* the nearest whole number of rows to n*f, a half going to the even one
NearestCount(n, f) ==
  LET twice == 2 * n * f[1]
      fl == twice \div (2 * f[2])
      rest == twice - 2 * f[2] * fl
  IN IF rest < f[2] THEN fl ELSE IF rest > f[2] THEN fl + 1 ELSE IF fl % 2 = 0 THEN fl ELSE fl + 1

\* C11: in uniform mode, rand_subset with f = 1 returns the feature matrix and the label
\* vector it was given, same rows, order and content; with 0 < f < 1 it returns the
\* nearest whole number to f*N of the N input rows, no input row twice, each with the
\* content and the label it had in the input, and the rows returned are the ones the
\* seeded generator draws for that length: the same input and seed give the same rows.
C11_UniformSubset ==
  (pc = "return" /\ ~imbalanced) =>
    /\ y_samp.index = X_samp.index
    /\ Len(y_samp.vals) = NRows(X_samp)
    /\ IF RatLess(rand_frac, R(1))
       THEN /\ NRows(X_samp) = NearestCount(NRows(X_full), rand_frac)
            /\ X_samp.cols = X_full.cols
            /\ \A i, j \in 1..NRows(X_samp) : i # j => X_samp.index[i] # X_samp.index[j]
            /\ \A i \in 1..NRows(X_samp) :
                 \E k \in 1..NRows(X_full) :
                   /\ k = rng[NRows(X_full)][i]
                   /\ X_samp.index[i] = X_full.index[k]
                   /\ X_samp.rows[i] = X_full.rows[k]
                   /\ y_samp.vals[i] = y_full.vals[k]
       ELSE /\ X_samp = X_full
            /\ y_samp = y_full

\* C11 witness: a uniform draw at f < 1 that returned at least two rows, fewer than it
\* was given, in an order that is not the input's
C11_Witness ==
  /\ pc = "return"
  /\ ~imbalanced
  /\ RatLess(rand_frac, R(1))
  /\ NRows(X_samp) >= 2
  /\ NRows(X_samp) < NRows(X_full)
  /\ X_samp.index[1] > X_samp.index[2]

\* C12: airport_select returns only when the K asked for is at most the number of
\* distinct airports of the table, and then the list has exactly K codes; when K is
\* larger the call fails with ConfigurationError.
C12_ExactlyKOrError ==
  /\ (pc = "restrict" /\ phase = "train") =>
        /\ num_airports <= Cardinality(ObservedAirports(df))
        /\ Len(airports) = num_airports
  /\ (phase = "train" /\ pc \notin {"read", "dropna", "airports"}
        /\ num_airports > Cardinality(ObservedAirports(df))) =>
        error = "ConfigurationError"

\* the values normalize works on in column c of the frame f
LoggedValues(f, c) == {Logged(c, f.rows[i][c]) : i \in 1..NRows(f)}

\* C13: normalize returns a scaler and matrices only if every normalized column takes
\* more than one value on the training data (its standard deviation is not zero); a
\* column of standard deviation zero makes it fail with ConfigurationError.
C13_ZeroDeviationFails ==
  /\ pc \in {"normalize_val", "missing_cat_add", "done"} =>
        \A c \in Range(X_vars_normalize) : Cardinality(LoggedValues(X_train, c)) > 1
  /\ (pc = "failed" /\ NRows(X_train) >= 1
        /\ \E c \in Range(X_vars_normalize) : Cardinality(LoggedValues(X_train, c)) = 1) =>
        error = "ConfigurationError"

\* column c of the frame f holds a zero or a negative value
HasNonPositive(f, c) == \E i \in 1..NRows(f) : f.rows[i][c][1] <= 0
\* every cell of the frame f is a finite number
AllFinite(f) == \A i \in 1..NRows(f) : \A c \in Range(f.cols) : IsFinite(f.rows[i][c])

\* C14: a zero or negative value in a logged column of the training or of the validation
\* matrix makes normalize fail with DomainError; the matrices it returns and the
\* parameters it fits hold no infinite or undefined value.
C14_LogDomain ==
  /\ pc \in {"missing_cat_add", "done"} =>
        /\ \A c \in Range(X_vars_log) : ~HasNonPositive(X_train, c) /\ ~HasNonPositive(X_val, c)
        /\ AllFinite(X_train_normalized)
        /\ AllFinite(X_val_norm0)
        /\ \A c \in Range(X_vars_normalize) : IsFinite(scaler.mean_[c]) /\ IsFinite(scaler.scale_[c])
  /\ (pc = "failed" /\ \E c \in Range(X_vars_log) : HasNonPositive(X_train, c) \/ HasNonPositive(X_val, c)) =>
        error = "DomainError"

\* the files a complete run leaves in the output folder
Artifacts ==
  {"saved_model", "scaler.joblib", "val_probs.joblib", "X_train_cols.joblib",
   "Train_delay_proportion.joblib", "airports.joblib", "X_vars_normalize.joblib",
   "X_vars_log.joblib", "X_vars_categorical.joblib", "X_vars_hours.joblib",
   "X_vars_cyclical_dict.joblib", "delay_minutes.joblib", "subsample_imbalanced.joblib"}

\* C15: a run in which any step failed (import, normalization, training, or one of the
\* save steps) has persisted nothing, and a run that completed has persisted every
\* artifact: all of them or none.
C15_AllOrNothing ==
  /\ pc = "failed" => DOMAIN persisted = {}
  /\ pc = "saved" => DOMAIN persisted = Artifacts

\* C16: once the model is fitted, the validation matrix it was given has exactly the
\* columns of the normalized training matrix, in the same order, whatever categorical
\* values each split holds; normalize left the training columns and their order as they
\* were; and the column list persisted as X_train_cols is that same list.
C16_ColumnsAgree ==
  /\ model.fitted =>
        /\ X_val_normalized.cols = X_train_normalized.cols
        /\ X_train_normalized.cols = X_train.cols
        /\ model.input_shape = Len(X_val_normalized.cols)
        /\ \A i \in 1..NRows(X_val_normalized) :
             DOMAIN X_val_normalized.rows[i] = Range(X_train_normalized.cols)
  /\ "X_train_cols.joblib" \in DOMAIN persisted =>
        /\ persisted["X_train_cols.joblib"] = X_train_normalized.cols
        /\ persisted["X_train_cols.joblib"] = X_val_normalized.cols

\* C16 witness: a complete run whose training split has a category the validation split
\* lacks and whose validation split has one the training split lacks
C16_Witness ==
  /\ pc = "saved"
  /\ model.fitted
  /\ "X_train_cols.joblib" \in DOMAIN persisted
  /\ NRows(X_val_normalized) >= 1
  /\ Range(X_train.cols) \ Range(X_val.cols) # {}
  /\ Range(X_val.cols) \ Range(X_train.cols) # {}

\* the training records with no null field, as a table
TrainingRecords == dropna(read_flight_csv(train_data))

\* C17: the airport list is the one airport_select gives for the training records after
\* the null rows are dropped; the validation import works with that list unchanged and
\* selects none of its own; airport_restrict keeps exactly the rows whose origin and
\* destination are both in the list; and the list persisted as the airports artifact is
\* that same list.
C17_OneAirportSet ==
  /\ phase = "val" =>
        /\ nb_airports \in airport_select(TrainingRecords, num_airports)
        /\ airports = nb_airports
  /\ pc = "names" =>
        /\ \A i \in 1..NRows(restricted) :
             /\ restricted.rows[i]["Origin"] \in Range(airports)
             /\ restricted.rows[i]["Dest"] \in Range(airports)
        /\ \A i \in 1..NRows(df) :
             (df.rows[i]["Origin"] \in Range(airports) /\ df.rows[i]["Dest"] \in Range(airports))
               => df.index[i] \in Range(restricted.index)
        /\ Range(restricted.index) \subseteq Range(df.index)
  /\ "airports.joblib" \in DOMAIN persisted => persisted["airports.joblib"] = nb_airports

\* C17 witness: a complete run whose validation import was restricted with the training
\* list, where a selection on the validation records would have given another list, the
\* restriction dropped a record and kept one, the training list depended on the null
\* rows being dropped, and the list was persisted
C17_Witness ==
  /\ pc = "saved"
  /\ airports \notin airport_select(df, num_airports)
  /\ NRows(restricted) >= 1
  /\ NRows(restricted) < NRows(df)
  /\ nb_airports \notin airport_select(read_flight_csv(train_data), num_airports)
  /\ persisted["airports.joblib"] = nb_airports
  /\ Len(nb_airports) >= 2

\* the label of a source record: its arrival delay is at least the threshold
SourceLabel(r) ==
  IsFinite(r["ArrDelayMinutes"]) /\ r["ArrDelayMinutes"][1] >= delay_minutes * r["ArrDelayMinutes"][2]

\* the feature matrix Xf and the label vector ys are paired over the records data: same
\* row labels in the same order, and row i holds the encoded month and the label of the
\* record its row label names
Paired(Xf, ys, data) ==
  /\ ys.index = Xf.index
  /\ Len(ys.vals) = NRows(Xf)
  /\ \A i \in 1..NRows(Xf) :
       LET r == data[Xf.index[i] + 1]
       IN /\ ys.vals[i] = SourceLabel(r)
          /\ Xf.rows[i]["sin(Month)"] = SinTurn(RatDiv(r["Month"], R(12)))
          /\ Xf.rows[i]["cos(Month)"] = CosTurn(RatDiv(r["Month"], R(12)))

\* C18: feature rows and labels stay paired one to one at every stage: what rand_subset
\* or imbalanced_subsample returns at any fraction, what import_data returns for either
\* split, and what normalize and missing_cat_add return have as many rows as labels, and
\* the i-th label is the label of the source record of the i-th feature row.
C18_RowsPaired ==
  /\ pc = "return" => Paired(X_samp, y_samp, IF phase = "train" THEN train_data ELSE val_data)
  /\ (phase = "val" /\ pc # "failed") => Paired(X_train, y_train, train_data)
  /\ pc \in {"normalize_train", "normalize_val", "missing_cat_add", "done"} =>
        Paired(X_val, y_val, val_data)
  /\ pc \in {"missing_cat_add", "done"} =>
        /\ Paired(X_train_normalized, y_train, train_data)
        /\ Paired(X_val_norm0, y_val, val_data)
  /\ (pc = "done" \/ model.fitted) =>
        /\ Paired(X_train_normalized, y_train, train_data)
        /\ Paired(X_val_normalized, y_val, val_data)

\* C18 witness: a fitted run whose training sample is two rows with different labels, not
\* in the input's order, drawn from a table with a dropped record
C18_Witness ==
  /\ model.fitted
  /\ RatLess(rand_frac_train, R(1))
  /\ NRows(X_train_normalized) = 2
  /\ y_train.vals[1] # y_train.vals[2]
  /\ X_train_normalized.index[1] > X_train_normalized.index[2]
  /\ Len(train_data) > Len(y_train_full.vals)
  /\ NRows(X_val_normalized) = 2

====
